---- MODULE Spec2Model ----
(***************************************************************************)
(* A model of music.py: the fragment generators (get_yaman_scale,          *)
(* generate_alaap, generate_fracture_texture, generate_rock_riff,          *)
(* create_keherwa_cycle, generate_synthesis_melody) and the assembly done  *)
(* by build_sahar_e_nau.                                                   *)
(*                                                                         *)
(* Time.  Every offset and duration of the program is a multiple of 1/2 or *)
(* of 1/3 of a quarter length (the notation library keeps 2/3.0 and 1/3.0  *)
(* as the exact fractions 2/3 and 1/3), so time is counted in ticks of 1/6 *)
(* quarter length: 0.5 is 3 ticks, 2/3 is 4 ticks, 4.0 is 24 ticks.        *)
(*                                                                         *)
(* Streams.  A stream is a record [hi, elems]: hi is the highest end time,  *)
(* elems is the sequence of <<offset, element>> in timeline order.  The    *)
(* two fragments whose content is random are too many to enumerate whole   *)
(* at their full length (7^64 melodies), so a stream built with            *)
(* keep = FALSE holds in elems only the element inserted last and the      *)
(* timing of the one before it; every element is the last one in some      *)
(* reachable state, so a state invariant over the last element speaks of   *)
(* every element.                                                          *)
(***************************************************************************)
EXTENDS Integers, Sequences, FiniteSets, TLC

VARIABLES
    pc,                 \* position in the running function
    stack,              \* return positions of the calls in progress
    caller,             \* the function called from outside: a generator, or build_sahar_e_nau
    root_note,          \* get_yaman_scale: the root pitch
    yaman_pitches,      \* get_yaman_scale: the list being built, then returned
    duration_quarters,  \* generate_alaap: the target duration (ticks)
    current_offset,     \* generate_alaap: the cursor (ticks)
    alaap_stream,       \* generate_alaap: the part
    fracture_stream,    \* generate_fracture_texture: the part
    riff_stream,        \* generate_rock_riff: the part
    m,                  \* create_keherwa_cycle: the measure
    synthesis_part,     \* generate_synthesis_melody: the part
    i,                  \* the running loop's counter
    drums_part,         \* build_sahar_e_nau: the intermediate drums part
    master_sitar,       \* build_sahar_e_nau: the Sitar timeline
    master_cello,       \* build_sahar_e_nau: the Cello timeline
    master_guitar,      \* build_sahar_e_nau: the Guitar timeline
    master_drums,       \* build_sahar_e_nau: the Drums timeline
    current_drum_offset,\* build_sahar_e_nau: the drum placement cursor (ticks)
    score,              \* build_sahar_e_nau: the score: its tempo marks and its parts
    cursors,            \* all runs of generate_alaap: the cursors the loop can stand at
    ends                \* all runs of generate_alaap: the cursors the loop can exit with

vars == <<pc, stack, caller, root_note, yaman_pitches, duration_quarters,
          current_offset, alaap_stream, fracture_stream, riff_stream, m,
          synthesis_part, i, drums_part, master_sitar, master_cello,
          master_guitar, master_drums, current_drum_offset, score,
          cursors, ends>>

(***************************************************************************)
(* Bounds of the model.                                                    *)
(***************************************************************************)
\* the largest target duration handed to generate_alaap by a test call, in ticks
MaxD == 12

(***************************************************************************)
(* Time                                                                    *)
(***************************************************************************)
\* ticks in one quarter length
Quarter == 2 * 3

\* a quarterLength literal num/den as ticks
QL(num, den) == (num * Quarter) \div den

(***************************************************************************)
(* Pitches: pitch.Pitch of the notation library.  A pitch is a letter step *)
(* (0 = C .. 6 = B), an accidental in semitones, an octave and a microtone *)
(* in cents.                                                               *)
(***************************************************************************)
\* semitones of the natural steps C D E F G A B above C
StepSemitones == <<0, 2, 4, 5, 7, 9, 11>>

\* pitch.Pitch('D4'): a pitch made from a name carries no microtone
Pitch(step, alter, octave) ==
    [step |-> step, alter |-> alter, octave |-> octave, microtone |-> 0]

\* the pitch space number (MIDI number) of a pitch, without its microtone
Ps(p) == 12 * (p.octave + 1) + StepSemitones[p.step + 1] + p.alter

\* p.nameWithOctave: step, accidental and octave; the microtone is no part of it
NameWithOctave(p) == <<p.step, p.alter, p.octave>>

PitchFromNameMutDetuned(name) ==
    [Pitch(name[1], name[2], name[3]) EXCEPT
        !.microtone = IF name[1] = 4 /\ name[2] = 1 THEN 10 ELSE 0]

\* pitch.Pitch(name) / note.Note(name): the pitch a name-with-octave string denotes
PitchFromName(name) == Pitch(name[1], name[2], name[3])

\* the named intervals the program uses: diatonic steps and semitones
Interval(int_str) ==
    CASE int_str = "M2" -> [generic |-> 1, chromatic |-> 2]
      [] int_str = "M3" -> [generic |-> 2, chromatic |-> 4]
      [] int_str = "P4" -> [generic |-> 3, chromatic |-> 5]
      [] int_str = "A4" -> [generic |-> 3, chromatic |-> 6]
      [] int_str = "P5" -> [generic |-> 4, chromatic |-> 7]
      [] int_str = "M6" -> [generic |-> 5, chromatic |-> 9]
      [] int_str = "M7" -> [generic |-> 6, chromatic |-> 11]

\* p.transpose(int_str): a new pitch, the letter moved by the interval's diatonic
\* steps and the accidental set so that the pitch lies its semitones higher
Transpose(p, int_str) ==
    LET iv      == Interval(int_str)
        d       == p.step + iv.generic
        step    == d % 7
        octave  == p.octave + (d \div 7)
        natural == 12 * (octave + 1) + StepSemitones[step + 1]
    IN  [step |-> step, alter |-> (Ps(p) + iv.chromatic) - natural,
         octave |-> octave, microtone |-> p.microtone]

(***************************************************************************)
(* get_yaman_scale                                                         *)
(***************************************************************************)
\* the cents by which the Tivra Ma is sharpened
TivraMaCents == 10

intervalsMutP4 == <<"M2", "M3", "P4", "P5", "M6", "M7">>

\* intervals = ['M2', 'M3', 'A4', 'P5', 'M6', 'M7']
intervals == <<"M2", "M3", "A4", "P5", "M6", "M7">>

\* one pass of the loop body: transpose the tonic, sharpen the A4 by 10 cents
YamanStep(tonic, int_str) ==
    LET p == Transpose(tonic, int_str)
    IN  IF int_str = "A4" THEN [p EXCEPT !.microtone = TivraMaCents] ELSE p

\* the roots a test call passes: every letter, flat, natural or sharp, octaves 3 and 4
Roots == {<<s, a, o>> : s \in 0..6, a \in {0 - 1, 0, 1}, o \in {3, 4}}

\* 'D4', the root generate_alaap and generate_synthesis_melody pass
D4 == <<1, 0, 4>>

(***************************************************************************)
(* Elements and streams                                                    *)
(***************************************************************************)
\* volume.velocity of a note whose velocity was never set
NoVelocity == 0 - 1

\* instrument.Sitar() and the like
Instrument(name) == [kind |-> "instrument", name |-> name]

\* one sounding pitch of a note or chord, with its own velocity and articulations
Sound(p, velocity, articulations) ==
    [pitch |-> p, velocity |-> velocity, articulations |-> articulations]

\* note.Note(name) with n.quarterLength = ql; id is the object's identity: the
\* fragment that made it and its number there (for an alaap note, the cursor
\* at which it was made)
Note(id, name, ql) ==
    [kind |-> "note", id |-> id, ql |-> ql, tuplets |-> <<>>,
     notes |-> <<Sound(PitchFromName(name), NoVelocity, <<>>)>>]

\* chord.Chord([...]) with c.quarterLength = ql
Chord(id, sounds, ql) ==
    [kind |-> "chord", id |-> id, ql |-> ql, tuplets |-> <<>>, notes |-> sounds]

\* the duration an element occupies in a stream
ElQL(el) ==
    CASE el.kind \in {"note", "chord", "measure"} -> el.ql
      [] el.kind = "part" -> el.stream.hi
      [] OTHER -> 0

\* is the element selected by .notes (notes and chords, no instruments or measures)
IsNote(el) == el.kind \in {"note", "chord"}

\* the sort order of element classes at one offset: instruments, then streams,
\* then tempo marks, then notes and chords
ClassSortOrder(el) ==
    CASE el.kind = "instrument" -> 0
      [] el.kind \in {"part", "measure"} -> 1
      [] el.kind = "tempo" -> 2
      [] OTHER -> 3

\* stream.Part() / stream.Measure(): an empty stream
EmptyStream == [hi |-> 0, elems |-> <<>>]

Max(a, b) == IF a >= b THEN a ELSE b

\* does entry e sort at or before a new element el placed at offset off
SortsBefore(e, off, el) ==
    \/ e[1] < off
    \/ e[1] = off /\ ClassSortOrder(e[2]) <= ClassSortOrder(el)

\* the sequence with <<off, el>> put at its place in timeline order
InsertSorted(elems, off, el) ==
    LET pos == Cardinality({k \in DOMAIN elems : SortsBefore(elems[k], off, el)})
    IN  SubSeq(elems, 1, pos) \o <<(<<off, el>>)>> \o SubSeq(elems, pos + 1, Len(elems))

\* an element with its sounds forgotten: what a summarised stream keeps of the
\* element before the last one
Timing(el) == IF IsNote(el) THEN [el EXCEPT !.notes = <<>>] ELSE el

\* a summarised stream's elems after an insert: the new element, and the timing
\* of the one inserted before it
Retain(elems, off, el) ==
    IF elems = <<>> THEN <<(<<off, el>>)>>
    ELSE <<(<<elems[Len(elems)][1], Timing(elems[Len(elems)][2])>>), (<<off, el>>)>>

\* s.insert(off, el); keep = FALSE for a summarised stream
Insert(s, off, el, keep) ==
    [hi    |-> Max(s.hi, off + ElQL(el)),
     elems |-> IF keep THEN InsertSorted(s.elems, off, el) ELSE Retain(s.elems, off, el)]

\* s.append(el): the element goes at the stream's highest time
AppendEl(s, el, keep) == Insert(s, s.hi, el, keep)

\* the entry inserted last (streams are filled in timeline order)
LastEntry(s) == s.elems[Len(s.elems)]

\* s.recurse().notes of a stream kept whole: its notes and chords, in order
Notes(s) == SelectSeq(s.elems, LAMBDA e : IsNote(e[2]))

(***************************************************************************)
(* Calls                                                                   *)
(***************************************************************************)
Call(fn, ret) == pc' = fn /\ stack' = <<ret>> \o stack

Return == pc' = Head(stack) /\ stack' = Tail(stack)

(***************************************************************************)
(* get_yaman_scale(root_note), lines 8-29                                  *)
(***************************************************************************)
ScaleEnter ==
    /\ pc = "get_yaman_scale"
    /\ yaman_pitches' = <<PitchFromName(root_note)>>
    /\ pc' = "scale_loop"
    /\ UNCHANGED <<cursors, ends, stack, caller, root_note, duration_quarters, current_offset,
                   alaap_stream, fracture_stream, riff_stream, m, synthesis_part, i,
                   drums_part, master_sitar, master_cello, master_guitar,
                   master_drums, current_drum_offset, score>>

ScaleLoop ==
    /\ pc = "scale_loop"
    /\ Len(yaman_pitches) <= Len(intervals)
    /\ yaman_pitches' = Append(yaman_pitches,
                               YamanStep(yaman_pitches[1], intervals[Len(yaman_pitches)]))
    /\ UNCHANGED <<cursors, ends, pc, stack, caller, root_note, duration_quarters, current_offset,
                   alaap_stream, fracture_stream, riff_stream, m, synthesis_part, i,
                   drums_part, master_sitar, master_cello, master_guitar,
                   master_drums, current_drum_offset, score>>

ScaleReturn ==
    /\ pc = "scale_loop"
    /\ Len(yaman_pitches) > Len(intervals)
    /\ Return
    /\ UNCHANGED <<cursors, ends, caller, root_note, yaman_pitches, duration_quarters, current_offset,
                   alaap_stream, fracture_stream, riff_stream, m, synthesis_part, i,
                   drums_part, master_sitar, master_cello, master_guitar,
                   master_drums, current_drum_offset, score>>

(***************************************************************************)
(* generate_alaap(duration_quarters), lines 80-110                         *)
(***************************************************************************)
\* weights = [0.1, 0.1, 0.3, 0.1, 0.1, 0.1, 0.2], in tenths
weights == <<1, 1, 3, 1, 1, 1, 2>>

\* scale_names = [p.nameWithOctave for p in yaman_scale]
ScaleNames(yaman_scale) == [k \in DOMAIN yaman_scale |-> NameWithOctave(yaman_scale[k])]

\* random.choices(scale_names, weights=weights, k=1)[0]: the names it can return
WeightedChoices(names) == {names[k] : k \in {j \in DOMAIN names : weights[j] > 0}}

AlaapDurationsMutShort == {QL(1, 3), QL(1, 1)}

\* random.choice([0.5, 1.0, 1.5, 2.0]): the durations it can return
AlaapDurations == {QL(1, 2), QL(1, 1), QL(3, 2), QL(2, 1)}

AlaapContinuesMutLeq(offset, target) == offset <= target

AlaapContinuesMutEarly(offset, target) == offset + QL(1, 2) < target

\* while current_offset < duration_quarters
AlaapContinues(offset, target) == offset < target

\* is build_sahar_e_nau running (rather than one generator, called by a test)
InBuild == caller = "build_sahar_e_nau"

\* the alaap part is kept whole in a test call and summarised in the build
KeepAlaap == ~InBuild

AlaapEnter ==
    /\ pc = "generate_alaap"
    /\ alaap_stream' = Insert(EmptyStream, 0, Instrument("Sitar"), KeepAlaap)
    /\ root_note' = D4
    /\ Call("get_yaman_scale", "alaap_init")
    /\ UNCHANGED <<cursors, ends, caller, yaman_pitches, duration_quarters, current_offset,
                   fracture_stream, riff_stream, m, synthesis_part, i,
                   drums_part, master_sitar, master_cello, master_guitar,
                   master_drums, current_drum_offset, score>>

AlaapInit ==
    /\ pc = "alaap_init"
    /\ current_offset' = 0
    /\ pc' = "alaap_loop"
    /\ UNCHANGED <<cursors, ends, stack, caller, root_note, yaman_pitches, duration_quarters,
                   alaap_stream, fracture_stream, riff_stream, m, synthesis_part, i,
                   drums_part, master_sitar, master_cello, master_guitar,
                   master_drums, current_drum_offset, score>>

\* the placement offset of the alaap in the Sitar timeline ("Mov I (0-32 QL)")
AlaapStart == 0

\* master_sitar.insert(element.offset, element), for the element about to be
\* handed over by sitar_alaap.recurse().notes (lines 293-294)
PlaceAlaap(master, entry) == Insert(master, AlaapStart + entry[1], entry[2], FALSE)

\* One pass of the loop.  In the build the assembler's loop over
\* sitar_alaap.recurse().notes takes the notes in the order the generator made
\* them, so each note is handed to it in the step that makes it.
AlaapLoop ==
    /\ pc = "alaap_loop"
    /\ AlaapContinues(current_offset, duration_quarters)
    /\ \E p_str \in WeightedChoices(ScaleNames(yaman_pitches)), dur \in AlaapDurations :
          LET n == Note(<<"alaap", current_offset>>, p_str, dur)
          IN  /\ alaap_stream' = Insert(alaap_stream, current_offset, n, KeepAlaap)
              /\ current_offset' = current_offset + dur
              /\ master_sitar' = IF InBuild
                                 THEN PlaceAlaap(master_sitar, LastEntry(alaap_stream'))
                                 ELSE master_sitar
    /\ UNCHANGED <<cursors, ends, pc, stack, caller, root_note, yaman_pitches, duration_quarters,
                   fracture_stream, riff_stream, m, synthesis_part, i,
                   drums_part, master_cello, master_guitar,
                   master_drums, current_drum_offset, score>>

AlaapReturn ==
    /\ pc = "alaap_loop"
    /\ ~AlaapContinues(current_offset, duration_quarters)
    /\ Return
    /\ UNCHANGED <<cursors, ends, caller, root_note, yaman_pitches, duration_quarters, current_offset,
                   alaap_stream, fracture_stream, riff_stream, m, synthesis_part, i,
                   drums_part, master_sitar, master_cello, master_guitar,
                   master_drums, current_drum_offset, score>>

(***************************************************************************)
(* generate_fracture_texture(), lines 113-144                              *)
(***************************************************************************)
\* for i in range(16)
FractureCount == 16

\* velocity = 60 + (i * 3)
VelocityFloor == 60

VelocityStep == 3

G3 == <<4, 0, 3>>

GSharp3 == <<4, 1, 3>>

FractureVelocityMutDown(k) == VelocityFloor - (k * VelocityStep)

FractureVelocity(k) == VelocityFloor + (k * VelocityStep)

\* chord.volume.velocity of a chord made from notes that carry their own
\* velocities: the rounded mean of the notes' velocities
ChordVelocity(c) ==
    LET total == c.notes[1].velocity + c.notes[2].velocity
        half  == total \div 2
    IN  IF total % 2 = 0 \/ half % 2 = 0 THEN half ELSE half + 1

ClashChordMutShort(k) ==
    Chord(<<"fracture", k>>,
          <<Sound(PitchFromName(G3), FractureVelocity(k), <<"StrongAccent">>),
            Sound(PitchFromName(GSharp3), FractureVelocity(k), <<"StrongAccent">>)>>,
          QL(3, 2))

\* the loop body: the G3 / G#3 clash, both notes accented and at the pass's
\* velocity, as a chord of quarterLength 2.0
ClashChord(k) ==
    Chord(<<"fracture", k>>,
          <<Sound(PitchFromName(G3), FractureVelocity(k), <<"StrongAccent">>),
            Sound(PitchFromName(GSharp3), FractureVelocity(k), <<"StrongAccent">>)>>,
          QL(2, 1))

FractureEnter ==
    /\ pc = "generate_fracture_texture"
    /\ fracture_stream' = Insert(EmptyStream, 0, Instrument("Violoncello"), TRUE)
    /\ i' = 0
    /\ pc' = "fracture_loop"
    /\ UNCHANGED <<cursors, ends, stack, caller, root_note, yaman_pitches, duration_quarters,
                   current_offset, alaap_stream, riff_stream, m, synthesis_part,
                   drums_part, master_sitar, master_cello, master_guitar,
                   master_drums, current_drum_offset, score>>

FractureLoop ==
    /\ pc = "fracture_loop"
    /\ i < FractureCount
    /\ fracture_stream' = AppendEl(fracture_stream, ClashChord(i), TRUE)
    /\ i' = i + 1
    /\ UNCHANGED <<cursors, ends, pc, stack, caller, root_note, yaman_pitches, duration_quarters,
                   current_offset, alaap_stream, riff_stream, m, synthesis_part,
                   drums_part, master_sitar, master_cello, master_guitar,
                   master_drums, current_drum_offset, score>>

FractureReturn ==
    /\ pc = "fracture_loop"
    /\ i >= FractureCount
    /\ Return
    /\ UNCHANGED <<cursors, ends, caller, root_note, yaman_pitches, duration_quarters, current_offset,
                   alaap_stream, fracture_stream, riff_stream, m, synthesis_part, i,
                   drums_part, master_sitar, master_cello, master_guitar,
                   master_drums, current_drum_offset, score>>

(***************************************************************************)
(* make_power_chord and generate_rock_riff(), lines 147-181                *)
(***************************************************************************)
\* for _ in range(4)
RiffRepetitions == 4

D3 == <<1, 0, 3>>

A2 == <<5, 0, 2>>

G2 == <<4, 0, 2>>

BFlat2 == <<6, 0 - 1, 2>>

\* make_power_chord(root_name, duration): the root and the fifth above it
MakePowerChord(id, root_name, duration) ==
    Chord(id,
          <<Sound(PitchFromName(root_name), NoVelocity, <<>>),
            Sound(Transpose(PitchFromName(root_name), "P5"), NoVelocity, <<>>)>>,
          duration)

\* chord.Chord(['G2', 'Bb2', 'D3']) with quarterLength 4.0
GmChord(id) ==
    Chord(id,
          <<Sound(PitchFromName(G2), NoVelocity, <<>>),
            Sound(PitchFromName(BFlat2), NoVelocity, <<>>),
            Sound(PitchFromName(D3), NoVelocity, <<>>)>>,
          QL(4, 1))

RiffBodyMutThreeBars(s, r) ==
    LET s1 == AppendEl(s, MakePowerChord(<<"riff", 4 * r>>, D3, QL(4, 1)), TRUE)
        s2 == AppendEl(s1, MakePowerChord(<<"riff", 4 * r + 1>>, A2, QL(4, 1)), TRUE)
    IN  AppendEl(s2, GmChord(<<"riff", 4 * r + 2>>), TRUE)

\* the body of the loop: the four bars appended to the part in repetition r
RiffBody(s, r) ==
    LET s1 == AppendEl(s, MakePowerChord(<<"riff", 4 * r>>, D3, QL(4, 1)), TRUE)
        s2 == AppendEl(s1, MakePowerChord(<<"riff", 4 * r + 1>>, A2, QL(4, 1)), TRUE)
        s3 == AppendEl(s2, MakePowerChord(<<"riff", 4 * r + 2>>, G2, QL(4, 1)), TRUE)
    IN  AppendEl(s3, GmChord(<<"riff", 4 * r + 3>>), TRUE)

RiffEnter ==
    /\ pc = "generate_rock_riff"
    /\ riff_stream' = Insert(EmptyStream, 0, Instrument("ElectricGuitar"), TRUE)
    /\ i' = 0
    /\ pc' = "riff_loop"
    /\ UNCHANGED <<cursors, ends, stack, caller, root_note, yaman_pitches, duration_quarters,
                   current_offset, alaap_stream, fracture_stream, m, synthesis_part,
                   drums_part, master_sitar, master_cello, master_guitar,
                   master_drums, current_drum_offset, score>>

RiffLoop ==
    /\ pc = "riff_loop"
    /\ i < RiffRepetitions
    /\ riff_stream' = RiffBody(riff_stream, i)
    /\ i' = i + 1
    /\ UNCHANGED <<cursors, ends, pc, stack, caller, root_note, yaman_pitches, duration_quarters,
                   current_offset, alaap_stream, fracture_stream, m, synthesis_part,
                   drums_part, master_sitar, master_cello, master_guitar,
                   master_drums, current_drum_offset, score>>

RiffReturn ==
    /\ pc = "riff_loop"
    /\ i >= RiffRepetitions
    /\ Return
    /\ UNCHANGED <<cursors, ends, caller, root_note, yaman_pitches, duration_quarters, current_offset,
                   alaap_stream, fracture_stream, riff_stream, m, synthesis_part, i,
                   drums_part, master_sitar, master_cello, master_guitar,
                   master_drums, current_drum_offset, score>>

(***************************************************************************)
(* tabla_map and create_keherwa_cycle(), lines 45-53 and 183-223           *)
(***************************************************************************)
tabla_map(bol) ==
    CASE bol = "Ge"   -> <<36>>
      [] bol = "Na"   -> <<37>>
      [] bol = "Tin"  -> <<45>>
      [] bol = "Dha"  -> <<36, 37>>
      [] bol = "Dhin" -> <<36, 45>>
      [] bol = "Ka"   -> <<44>>
      [] bol = "Ke"   -> <<44>>

\* long_beat = 2/3.0
long_beat == QL(2, 3)

short_beat_mut_half == QL(1, 2)

\* short_beat = 1/3.0
short_beat == QL(1, 3)

pattern_bols ==
    <<(<<"Dha", long_beat>>), (<<"Ge", short_beat>>),
      (<<"Na", long_beat>>), (<<"Tin", short_beat>>),
      (<<"Na", long_beat>>), (<<"Ka", short_beat>>),
      (<<"Dhin", long_beat>>), (<<"Na", short_beat>>)>>

\* the spelling of the twelve pitch classes of a MIDI number: step and accidental
MidiSpelling ==
    <<(<<0, 0>>), (<<0, 1>>), (<<1, 0>>), (<<2, 0 - 1>>), (<<2, 0>>), (<<3, 0>>),
      (<<3, 1>>), (<<4, 0>>), (<<4, 1>>), (<<5, 0>>), (<<6, 0 - 1>>), (<<6, 0>>)>>

\* note.Note(midi) / chord.Chord([midi, ...]): the pitch of a MIDI number
PitchFromMidi(midi) ==
    LET sp == MidiSpelling[(midi % 12) + 1]
    IN  Pitch(sp[1], sp[2], (midi \div 12) - 1)

\* duration.Tuplet(3, 2)
Tuplet32 == <<3, 2>>

\* the loop body for the k-th (bol, q_len) pair: a chord for a combo stroke, a
\* note for a single one, with the pair's quarterLength and a 3:2 tuplet
Stroke(k) ==
    LET midi_vals == tabla_map(pattern_bols[k][1])
        sounds == [j \in DOMAIN midi_vals |->
                      Sound(PitchFromMidi(midi_vals[j]), NoVelocity, <<>>)]
    IN  [kind |-> IF Len(midi_vals) > 1 THEN "chord" ELSE "note",
         id |-> <<"keherwa", k - 1>>, ql |-> pattern_bols[k][2],
         tuplets |-> <<Tuplet32>>, notes |-> sounds]

KeherwaEnter ==
    /\ pc = "create_keherwa_cycle"
    /\ m' = EmptyStream
    /\ i' = 0
    /\ pc' = "keherwa_loop"
    /\ UNCHANGED <<cursors, ends, stack, caller, root_note, yaman_pitches, duration_quarters,
                   current_offset, alaap_stream, fracture_stream, riff_stream,
                   synthesis_part, drums_part, master_sitar, master_cello,
                   master_guitar, master_drums, current_drum_offset, score>>

KeherwaLoop ==
    /\ pc = "keherwa_loop"
    /\ i < Len(pattern_bols)
    /\ m' = AppendEl(m, Stroke(i + 1), TRUE)
    /\ i' = i + 1
    /\ UNCHANGED <<cursors, ends, pc, stack, caller, root_note, yaman_pitches, duration_quarters,
                   current_offset, alaap_stream, fracture_stream, riff_stream,
                   synthesis_part, drums_part, master_sitar, master_cello,
                   master_guitar, master_drums, current_drum_offset, score>>

KeherwaReturn ==
    /\ pc = "keherwa_loop"
    /\ i >= Len(pattern_bols)
    /\ Return
    /\ UNCHANGED <<cursors, ends, caller, root_note, yaman_pitches, duration_quarters, current_offset,
                   alaap_stream, fracture_stream, riff_stream, m, synthesis_part, i,
                   drums_part, master_sitar, master_cello, master_guitar,
                   master_drums, current_drum_offset, score>>

(***************************************************************************)
(* generate_synthesis_melody(), lines 226-242                              *)
(***************************************************************************)
\* for _ in range(8 * 8)
SynthesisCount == 8 * 8

\* random.choice(safe_note_names): the names it can return
Choices(names) == {names[k] : k \in DOMAIN names}

synthesis_start_offset_mut_32 == QL(32, 1)

synthesis_start_offset_mut_measured == master_sitar.hi + QL(32, 1) + QL(64, 1)

\* synthesis_start_offset = 32 + 32 + 64
synthesis_start_offset == QL(32, 1) + QL(32, 1) + QL(64, 1)

PlaceSynthesisMutFixed(master, entry) ==
    Insert(master, synthesis_start_offset, entry[2], FALSE)

\* master_sitar.insert(synthesis_start_offset + element.offset, element), for the
\* element about to be handed over by sitar_synthesis.recurse().notes (300-301)
PlaceSynthesis(master, entry) ==
    Insert(master, synthesis_start_offset + entry[1], entry[2], FALSE)

SynthesisEnter ==
    /\ pc = "generate_synthesis_melody"
    /\ synthesis_part' = Insert(EmptyStream, 0, Instrument("Sitar"), FALSE)
    /\ root_note' = D4
    /\ Call("get_yaman_scale", "synthesis_init")
    /\ UNCHANGED <<cursors, ends, caller, yaman_pitches, duration_quarters, current_offset,
                   alaap_stream, fracture_stream, riff_stream, m, i,
                   drums_part, master_sitar, master_cello, master_guitar,
                   master_drums, current_drum_offset, score>>

SynthesisInit ==
    /\ pc = "synthesis_init"
    /\ i' = 0
    /\ pc' = "synthesis_loop"
    /\ UNCHANGED <<cursors, ends, stack, caller, root_note, yaman_pitches, duration_quarters,
                   current_offset, alaap_stream, fracture_stream, riff_stream, m,
                   synthesis_part, drums_part, master_sitar, master_cello,
                   master_guitar, master_drums, current_drum_offset, score>>

\* One pass of the loop; the part is summarised.  In the build each note is
\* handed to the assembler's loop over sitar_synthesis.recurse().notes in the
\* step that makes it, as for the alaap.
SynthesisLoop ==
    /\ pc = "synthesis_loop"
    /\ i < SynthesisCount
    /\ \E name \in Choices(ScaleNames(yaman_pitches)) :
          LET n == Note(<<"synthesis", i>>, name, QL(1, 2))
          IN  /\ synthesis_part' = AppendEl(synthesis_part, n, FALSE)
              /\ master_sitar' = IF InBuild
                                 THEN PlaceSynthesis(master_sitar, LastEntry(synthesis_part'))
                                 ELSE master_sitar
    /\ i' = i + 1
    /\ UNCHANGED <<cursors, ends, pc, stack, caller, root_note, yaman_pitches, duration_quarters,
                   current_offset, alaap_stream, fracture_stream, riff_stream, m,
                   drums_part, master_cello, master_guitar,
                   master_drums, current_drum_offset, score>>

SynthesisReturn ==
    /\ pc = "synthesis_loop"
    /\ i >= SynthesisCount
    /\ Return
    /\ UNCHANGED <<cursors, ends, caller, root_note, yaman_pitches, duration_quarters, current_offset,
                   alaap_stream, fracture_stream, riff_stream, m, synthesis_part, i,
                   drums_part, master_sitar, master_cello, master_guitar,
                   master_drums, current_drum_offset, score>>

(***************************************************************************)
(* The generators called one at a time, as the tests call them             *)
(***************************************************************************)
TestCalls == {"get_yaman_scale", "generate_alaap", "generate_fracture_texture",
              "generate_rock_riff", "create_keherwa_cycle",
              "generate_synthesis_melody"}

\* the target durations a test call passes: from below zero up to MaxD ticks
DurationInputs == (0 - QL(1, 2))..MaxD

Init ==
    /\ caller \in TestCalls
    /\ pc = caller
    /\ stack = <<"done">>
    /\ root_note \in (IF caller = "get_yaman_scale" THEN Roots ELSE {D4})
    /\ duration_quarters \in (IF caller = "generate_alaap" THEN DurationInputs ELSE {0})
    /\ yaman_pitches = <<>>
    /\ current_offset = 0
    /\ alaap_stream = EmptyStream
    /\ fracture_stream = EmptyStream
    /\ riff_stream = EmptyStream
    /\ m = EmptyStream
    /\ synthesis_part = EmptyStream
    /\ i = 0
    /\ drums_part = EmptyStream
    /\ master_sitar = EmptyStream
    /\ master_cello = EmptyStream
    /\ master_guitar = EmptyStream
    /\ master_drums = EmptyStream
    /\ current_drum_offset = 0
    /\ score = EmptyStream
    /\ cursors = {}
    /\ ends = {}

Next ==
    \/ ScaleEnter \/ ScaleLoop \/ ScaleReturn
    \/ AlaapEnter \/ AlaapInit \/ AlaapLoop \/ AlaapReturn
    \/ FractureEnter \/ FractureLoop \/ FractureReturn
    \/ RiffEnter \/ RiffLoop \/ RiffReturn
    \/ KeherwaEnter \/ KeherwaLoop \/ KeherwaReturn
    \/ SynthesisEnter \/ SynthesisInit \/ SynthesisLoop \/ SynthesisReturn

Spec == Init /\ [][Next]_vars

\* a call that has been made runs on: whenever a step of the program is enabled,
\* one is eventually taken
SpecFair == Init /\ [][Next]_vars /\ WF_vars(Next)

(***************************************************************************)
(* build_sahar_e_nau(), lines 248-344.  create_sitar_drone is called but   *)
(* its part is never put into the score ("Drone is omitted here"), so it   *)
(* is left out.  The Sitar timeline is created before the alaap is made,   *)
(* because each alaap note is handed to it as it is made (see AlaapLoop).  *)
(***************************************************************************)
\* generate_alaap(duration_quarters=32)
BuildEnter ==
    /\ pc = "build_sahar_e_nau"
    /\ score' = EmptyStream
    /\ master_sitar' = Insert(EmptyStream, 0, Instrument("Sitar"), FALSE)
    /\ duration_quarters' = QL(32, 1)
    /\ Call("generate_alaap", "build_fracture")
    /\ UNCHANGED <<cursors, ends, caller, root_note, yaman_pitches, current_offset,
                   alaap_stream, fracture_stream, riff_stream, m, synthesis_part, i,
                   drums_part, master_cello, master_guitar,
                   master_drums, current_drum_offset>>

\* fracture = generate_fracture_texture().  The alaap part has been handed to
\* the Sitar timeline whole and nothing reads it or its cursor again: the model
\* drops them here.
BuildFracture ==
    /\ pc = "build_fracture"
    /\ alaap_stream' = EmptyStream
    /\ current_offset' = 0
    /\ Call("generate_fracture_texture", "build_riff")
    /\ UNCHANGED <<cursors, ends, caller, root_note, yaman_pitches, duration_quarters,
                   fracture_stream, riff_stream, m, synthesis_part, i,
                   drums_part, master_sitar, master_cello, master_guitar,
                   master_drums, current_drum_offset, score>>

\* guitar_riff = generate_rock_riff()
BuildRiff ==
    /\ pc = "build_riff"
    /\ Call("generate_rock_riff", "build_drums")
    /\ UNCHANGED <<cursors, ends, caller, root_note, yaman_pitches, duration_quarters, current_offset,
                   alaap_stream, fracture_stream, riff_stream, m, synthesis_part, i,
                   drums_part, master_sitar, master_cello, master_guitar,
                   master_drums, current_drum_offset, score>>

\* drums_part = stream.Part() with its instrument; keherwa_bar = create_keherwa_cycle()
BuildDrums ==
    /\ pc = "build_drums"
    /\ drums_part' = Insert(EmptyStream, 0, Instrument("UnpitchedPercussion"), TRUE)
    /\ Call("create_keherwa_cycle", "build_drums_init")
    /\ UNCHANGED <<cursors, ends, caller, root_note, yaman_pitches, duration_quarters, current_offset,
                   alaap_stream, fracture_stream, riff_stream, m, synthesis_part, i,
                   master_sitar, master_cello, master_guitar,
                   master_drums, current_drum_offset, score>>

BuildDrumsInit ==
    /\ pc = "build_drums_init"
    /\ i' = 0
    /\ pc' = "build_drums_loop"
    /\ UNCHANGED <<cursors, ends, stack, caller, root_note, yaman_pitches, duration_quarters,
                   current_offset, alaap_stream, fracture_stream, riff_stream, m,
                   synthesis_part, drums_part, master_sitar, master_cello,
                   master_guitar, master_drums, current_drum_offset, score>>

\* for _ in range(16)
DrumBars == 16

\* copy.deepcopy(keherwa_bar): a new measure with the bar's content
MeasureCopy(bar, k) ==
    [kind |-> "measure", id |-> <<"drums", k>>, ql |-> bar.hi, elems |-> bar.elems]

\* drums_part.append(copy.deepcopy(keherwa_bar))
BuildDrumsLoop ==
    /\ pc = "build_drums_loop"
    /\ i < DrumBars
    /\ drums_part' = AppendEl(drums_part, MeasureCopy(m, i), TRUE)
    /\ i' = i + 1
    /\ UNCHANGED <<cursors, ends, pc, stack, caller, root_note, yaman_pitches, duration_quarters,
                   current_offset, alaap_stream, fracture_stream, riff_stream, m,
                   synthesis_part, master_sitar, master_cello,
                   master_guitar, master_drums, current_drum_offset, score>>

\* sitar_synthesis = generate_synthesis_melody()
BuildSynthesis ==
    /\ pc = "build_drums_loop"
    /\ i >= DrumBars
    /\ Call("generate_synthesis_melody", "build_cello")
    /\ UNCHANGED <<cursors, ends, caller, root_note, yaman_pitches, duration_quarters, current_offset,
                   alaap_stream, fracture_stream, riff_stream, m, synthesis_part, i,
                   drums_part, master_sitar, master_cello, master_guitar,
                   master_drums, current_drum_offset, score>>

\* master_cello = stream.Part() with its instrument
BuildCello ==
    /\ pc = "build_cello"
    /\ master_cello' = Insert(EmptyStream, 0, Instrument("Violoncello"), TRUE)
    /\ i' = 1
    /\ pc' = "cello_loop"
    /\ UNCHANGED <<cursors, ends, stack, caller, root_note, yaman_pitches, duration_quarters,
                   current_offset, alaap_stream, fracture_stream, riff_stream, m,
                   synthesis_part, drums_part, master_sitar,
                   master_guitar, master_drums, current_drum_offset, score>>

\* master_cello.insert(32 + element.offset, element)
PlaceCello(master, entry) == Insert(master, QL(32, 1) + entry[1], entry[2], TRUE)

\* for element in fracture.recurse().notes
CelloLoop ==
    /\ pc = "cello_loop"
    /\ i <= Len(Notes(fracture_stream))
    /\ master_cello' = PlaceCello(master_cello, Notes(fracture_stream)[i])
    /\ i' = i + 1
    /\ UNCHANGED <<cursors, ends, pc, stack, caller, root_note, yaman_pitches, duration_quarters,
                   current_offset, alaap_stream, fracture_stream, riff_stream, m,
                   synthesis_part, drums_part, master_sitar,
                   master_guitar, master_drums, current_drum_offset, score>>

\* the cello loop ends; master_guitar = stream.Part() with its instrument
BuildGuitar ==
    /\ pc = "cello_loop"
    /\ i > Len(Notes(fracture_stream))
    /\ master_guitar' = Insert(EmptyStream, 0, Instrument("ElectricGuitar"), TRUE)
    /\ i' = 1
    /\ pc' = "guitar_loop"
    /\ UNCHANGED <<cursors, ends, stack, caller, root_note, yaman_pitches, duration_quarters,
                   current_offset, alaap_stream, fracture_stream, riff_stream, m,
                   synthesis_part, drums_part, master_sitar, master_cello,
                   master_drums, current_drum_offset, score>>

\* master_guitar.insert(64 + element.offset, element)
PlaceGuitar(master, entry) == Insert(master, QL(64, 1) + entry[1], entry[2], TRUE)

\* for element in guitar_riff.recurse().notes
GuitarLoop ==
    /\ pc = "guitar_loop"
    /\ i <= Len(Notes(riff_stream))
    /\ master_guitar' = PlaceGuitar(master_guitar, Notes(riff_stream)[i])
    /\ i' = i + 1
    /\ UNCHANGED <<cursors, ends, pc, stack, caller, root_note, yaman_pitches, duration_quarters,
                   current_offset, alaap_stream, fracture_stream, riff_stream, m,
                   synthesis_part, drums_part, master_sitar, master_cello,
                   master_drums, current_drum_offset, score>>

\* the guitar loop ends; master_drums = stream.Part() with its instrument;
\* current_drum_offset = 64
BuildMasterDrums ==
    /\ pc = "guitar_loop"
    /\ i > Len(Notes(riff_stream))
    /\ master_drums' = Insert(EmptyStream, 0, Instrument("UnpitchedPercussion"), TRUE)
    /\ current_drum_offset' = QL(64, 1)
    /\ i' = 1
    /\ pc' = "drum_loop"
    /\ UNCHANGED <<cursors, ends, stack, caller, root_note, yaman_pitches, duration_quarters,
                   current_offset, alaap_stream, fracture_stream, riff_stream, m,
                   synthesis_part, drums_part, master_sitar, master_cello,
                   master_guitar, score>>

\* for measure in drums_part: the elements of the part, every one of them, in
\* timeline order (its instrument at offset 0 is the first)
DrumElements(part) == part.elems

\* for measure in drums_part: master_drums.insert(current_drum_offset, measure);
\* current_drum_offset += 4.0
DrumLoop ==
    /\ pc = "drum_loop"
    /\ i <= Len(DrumElements(drums_part))
    /\ master_drums' = Insert(master_drums, current_drum_offset,
                              DrumElements(drums_part)[i][2], TRUE)
    /\ current_drum_offset' = current_drum_offset + QL(4, 1)
    /\ i' = i + 1
    /\ UNCHANGED <<cursors, ends, pc, stack, caller, root_note, yaman_pitches, duration_quarters,
                   current_offset, alaap_stream, fracture_stream, riff_stream, m,
                   synthesis_part, drums_part, master_sitar, master_cello,
                   master_guitar, score>>

\* tempo.MetronomeMark(number=...)
MetronomeMark(number) == [kind |-> "tempo", number |-> number]

\* a part put into the score, with its id
Part(id, s) == [kind |-> "part", id |-> id, stream |-> s]

TempoMarksMutOne(sc) == Insert(sc, 0, MetronomeMark(72), TRUE)

\* score.insert(0, MetronomeMark(number=72)); score.insert(64, MetronomeMark(number=108))
TempoMarks(sc) ==
    Insert(Insert(sc, 0, MetronomeMark(72), TRUE), QL(64, 1), MetronomeMark(108), TRUE)

\* the drum loop ends; the two tempo marks and the four parts go into the
\* score, which is returned
BuildScore ==
    /\ pc = "drum_loop"
    /\ i > Len(DrumElements(drums_part))
    /\ LET s0 == TempoMarks(score)
           s1 == Insert(s0, 0, Part("Sitar", master_sitar), TRUE)
           s2 == Insert(s1, 0, Part("Cello", master_cello), TRUE)
           s3 == Insert(s2, 0, Part("Guitar", master_guitar), TRUE)
       IN  score' = Insert(s3, 0, Part("Drums", master_drums), TRUE)
    /\ Return
    /\ UNCHANGED <<cursors, ends, caller, root_note, yaman_pitches, duration_quarters, current_offset,
                   alaap_stream, fracture_stream, riff_stream, m, synthesis_part, i,
                   drums_part, master_sitar, master_cello, master_guitar,
                   master_drums, current_drum_offset>>

InitBuild ==
    /\ caller = "build_sahar_e_nau"
    /\ pc = caller
    /\ stack = <<"done">>
    /\ root_note = D4
    /\ duration_quarters = 0
    /\ yaman_pitches = <<>>
    /\ current_offset = 0
    /\ alaap_stream = EmptyStream
    /\ fracture_stream = EmptyStream
    /\ riff_stream = EmptyStream
    /\ m = EmptyStream
    /\ synthesis_part = EmptyStream
    /\ i = 0
    /\ drums_part = EmptyStream
    /\ master_sitar = EmptyStream
    /\ master_cello = EmptyStream
    /\ master_guitar = EmptyStream
    /\ master_drums = EmptyStream
    /\ current_drum_offset = 0
    /\ score = EmptyStream
    /\ cursors = {}
    /\ ends = {}

NextBuild ==
    \/ Next
    \/ BuildEnter \/ BuildFracture \/ BuildRiff \/ BuildDrums \/ BuildDrumsInit
    \/ BuildDrumsLoop \/ BuildSynthesis \/ BuildCello \/ CelloLoop \/ BuildGuitar
    \/ GuitarLoop \/ BuildMasterDrums \/ DrumLoop \/ BuildScore

SpecBuild == InitBuild /\ [][NextBuild]_vars

(***************************************************************************)
(* All runs of generate_alaap's loop at once (lines 96-108).  A single run *)
(* shows one outcome of the draws; whether some run ends early or late is  *)
(* a statement about all of them.  Here the state holds the set of cursors *)
(* at which the loop can stand after a number of passes, over every draw   *)
(* of random.choice, and the set of cursors with which it can exit.  The   *)
(* cursor at exit is the end of the last note (offset + duration).         *)
(***************************************************************************)
\* the target durations of the calls in the program: the tests' 8 and 16, the build's 32
CalledDurations == {QL(8, 1), QL(16, 1), QL(32, 1)}

InitRuns ==
    /\ caller = "generate_alaap"
    /\ pc = "alaap_runs"
    /\ stack = <<>>
    /\ root_note = D4
    /\ duration_quarters \in CalledDurations
    /\ yaman_pitches = <<>>
    /\ current_offset = 0
    /\ alaap_stream = EmptyStream
    /\ fracture_stream = EmptyStream
    /\ riff_stream = EmptyStream
    /\ m = EmptyStream
    /\ synthesis_part = EmptyStream
    /\ i = 0
    /\ drums_part = EmptyStream
    /\ master_sitar = EmptyStream
    /\ master_cello = EmptyStream
    /\ master_guitar = EmptyStream
    /\ master_drums = EmptyStream
    /\ current_drum_offset = 0
    /\ score = EmptyStream
    /\ cursors = {0}
    /\ ends = {}

\* one pass of the loop in every run still in it: a run whose cursor fails the
\* while condition exits with that cursor, every other run draws a duration
RunsPass ==
    /\ pc = "alaap_runs"
    /\ cursors # {}
    /\ ends' = ends \cup {c \in cursors : ~AlaapContinues(c, duration_quarters)}
    /\ cursors' = {c + dur : c \in {x \in cursors : AlaapContinues(x, duration_quarters)},
                             dur \in AlaapDurations}
    /\ i' = i + 1
    /\ UNCHANGED <<pc, stack, caller, root_note, yaman_pitches, duration_quarters,
                   current_offset, alaap_stream, fracture_stream, riff_stream, m,
                   synthesis_part, drums_part, master_sitar, master_cello,
                   master_guitar, master_drums, current_drum_offset, score>>

\* every run has exited
RunsDone ==
    /\ pc = "alaap_runs"
    /\ cursors = {}
    /\ pc' = "done"
    /\ UNCHANGED <<stack, caller, root_note, yaman_pitches, duration_quarters,
                   current_offset, alaap_stream, fracture_stream, riff_stream, m,
                   synthesis_part, i, drums_part, master_sitar, master_cello,
                   master_guitar, master_drums, current_drum_offset, score,
                   cursors, ends>>

NextRuns == RunsPass \/ RunsDone

SpecRuns == InitRuns /\ [][NextRuns]_vars

(***************************************************************************)
(* Properties of the generators                                            *)
(***************************************************************************)
\* has the function a test called returned
Returned(fn) == caller = fn /\ pc = "done"

RECURSIVE SumQL(_)
\* the sum of the durations of a sequence of <<offset, element>> entries
SumQL(entries) ==
    IF entries = <<>> THEN 0 ELSE ElQL(Head(entries)[2]) + SumQL(Tail(entries))

\* C1: for every target duration D >= 0 and every sequence of draws, the
\* durations of the events generate_alaap(D) returns sum to S with
\* D <= S < D + 2.0, and every event, the last one included, has one of the
\* durations 0.5, 1.0, 1.5, 2.0 in full: the last event is not cut at D.
C1_AlaapDuration ==
    (Returned("generate_alaap") /\ duration_quarters >= 0) =>
        LET evs == Notes(alaap_stream)
            S   == SumQL(evs)
        IN  /\ duration_quarters <= S
            /\ S < duration_quarters + QL(2, 1)
            /\ \A k \in DOMAIN evs : evs[k][2].ql \in {QL(1, 2), QL(1, 1), QL(3, 2), QL(2, 1)}
            /\ alaap_stream.hi = S

\* C1 witness: a returned alaap that overshoots a positive target by 1.5
C1_Witness ==
    /\ Returned("generate_alaap")
    /\ duration_quarters = QL(2, 1)
    /\ SumQL(Notes(alaap_stream)) = duration_quarters + QL(3, 2)
    /\ LastEntry(alaap_stream)[2].ql = QL(2, 1)

\* the pitches of a scale, as a set
ScalePitches(scale) == {scale[k] : k \in DOMAIN scale}

\* C2: every pitch of every event produced by generate_alaap is a member of
\* the 7-pitch scale returned by get_yaman_scale('D4').
C2_AlaapPitchInScale ==
    (caller = "generate_alaap" /\ pc \in {"alaap_loop", "done"}) =>
        \A k \in DOMAIN alaap_stream.elems :
            IsNote(alaap_stream.elems[k][2]) =>
                alaap_stream.elems[k][2].notes[1].pitch \in ScalePitches(yaman_pitches)

\* the semitones of the seven degrees of Yaman above the root
YamanSemitones == <<0, 2, 4, 6, 7, 9, 11>>

\* C3: for any root, get_yaman_scale returns exactly 7 pitches in order: the
\* root, then the pitches 2, 4, 6, 7, 9 and 11 semitones above it, spelled on
\* the 2nd to 7th letter above the root's; the augmented 4th (index 3, here
\* the 4th entry) carries +10 cents and no other entry carries any microtone.
C3_YamanScale ==
    Returned("get_yaman_scale") =>
        /\ Len(yaman_pitches) = 7
        /\ yaman_pitches[1] = PitchFromName(root_note)
        /\ \A k \in 1..7 :
              /\ Ps(yaman_pitches[k]) - Ps(PitchFromName(root_note)) = YamanSemitones[k]
              /\ yaman_pitches[k].step = (root_note[1] + (k - 1)) % 7
              /\ yaman_pitches[k].microtone = (IF k = 4 THEN 10 ELSE 0)

\* C3 witness: the scale returned for F#4, whose 4th entry is B#4 with +10 cents
C3_Witness ==
    /\ Returned("get_yaman_scale")
    /\ root_note = <<3, 1, 4>>
    /\ Len(yaman_pitches) = 7
    /\ NameWithOctave(yaman_pitches[4]) = <<6, 1, 4>>
    /\ yaman_pitches[4].microtone = 10

\* C6: one keherwa cycle has 8 events whose durations alternate 2/3 and 1/3
\* beat and sum to exactly 4 beats, each long/short pair summing to exactly
\* 1 beat, and every one of the 8 events carries a 3:2 tuplet.
C6_KeherwaCycle ==
    Returned("create_keherwa_cycle") =>
        LET evs == Notes(m)
        IN  /\ Len(evs) = 8
            /\ SumQL(evs) = QL(4, 1)
            /\ \A k \in 1..8 :
                  /\ evs[k][2].ql = (IF k % 2 = 1 THEN QL(2, 3) ELSE QL(1, 3))
                  /\ evs[k][2].tuplets = <<(<<3, 2>>)>>
            /\ \A j \in 1..4 :
                  /\ evs[2 * j - 1][2].ql + evs[2 * j][2].ql = QL(1, 1)
                  /\ evs[2 * j - 1][1] = QL(j - 1, 1)

\* C6 witness: a returned cycle that ends at 4 beats, its first stroke the
\* Dha chord and its last stroke a single note
C6_Witness ==
    /\ Returned("create_keherwa_cycle")
    /\ m.hi = QL(4, 1)
    /\ m.elems[1][2].kind = "chord"
    /\ m.elems[8][2].kind = "note"
    /\ m.elems[8][1] = QL(11, 3)

\* the names of the pitches of a chord, in order
ChordNames(c) == [k \in DOMAIN c.notes |-> NameWithOctave(c.notes[k].pitch)]

\* the four bars of the progression: D5, A5, G5 power chords and G minor
RiffBars ==
    <<(<<(<<1, 0, 3>>), (<<5, 0, 3>>)>>),
      (<<(<<5, 0, 2>>), (<<2, 0, 3>>)>>),
      (<<(<<4, 0, 2>>), (<<1, 0, 3>>)>>),
      (<<(<<4, 0, 2>>), (<<6, 0 - 1, 2>>), (<<1, 0, 3>>)>>)>>

\* C7: generate_rock_riff returns exactly 4 x 4 = 16 chord events, each of
\* duration exactly 4.0, in the repeating order power(D3), power(A2),
\* power(G2), G-minor triad.
C7_RockRiff ==
    Returned("generate_rock_riff") =>
        LET evs == Notes(riff_stream)
        IN  /\ Len(evs) = 4 * 4
            /\ \A k \in DOMAIN evs :
                  /\ evs[k][2].kind = "chord"
                  /\ evs[k][2].ql = QL(4, 1)
                  /\ ChordNames(evs[k][2]) = RiffBars[((k - 1) % 4) + 1]

\* C7 witness: a returned riff whose last chord is the G minor triad at bar 16
C7_Witness ==
    /\ Returned("generate_rock_riff")
    /\ Len(riff_stream.elems) = 17
    /\ riff_stream.elems[17][1] = QL(60, 1)
    /\ Len(riff_stream.elems[17][2].notes) = 3

\* C8: generate_fracture_texture returns exactly 16 two-pitch chord events,
\* event i has loudness 60 + 3*i, and the loudness sequence is non-decreasing
\* (so the last is at least the first).
C8_FractureCrescendo ==
    Returned("generate_fracture_texture") =>
        LET evs == Notes(fracture_stream)
        IN  /\ Len(evs) = 16
            /\ \A k \in DOMAIN evs :
                  /\ evs[k][2].kind = "chord"
                  /\ Len(evs[k][2].notes) = 2
                  /\ ChordVelocity(evs[k][2]) = 60 + 3 * (k - 1)
            /\ \A j, k \in DOMAIN evs :
                  j <= k => ChordVelocity(evs[j][2]) <= ChordVelocity(evs[k][2])

\* C8 witness: a returned texture whose first chord has loudness 60 and whose
\* last has 105
C8_Witness ==
    /\ Returned("generate_fracture_texture")
    /\ Len(fracture_stream.elems) = 17
    /\ ChordVelocity(fracture_stream.elems[2][2]) = 60
    /\ ChordVelocity(fracture_stream.elems[17][2]) = 105

\* C9: generate_synthesis_melody returns exactly 64 events (the events numbered
\* 0 to 63, one per pass of the loop), every one of duration exactly 0.5,
\* placed back to back from local offset 0, and every pitch is a member of the
\* 7-pitch scale get_yaman_scale('D4').
C9_SynthesisMelody ==
    (caller = "generate_synthesis_melody" /\ pc \in {"synthesis_loop", "done"}) =>
        /\ pc = "done" => i = 64
        /\ synthesis_part.hi = i * QL(1, 2)
        /\ LET e == LastEntry(synthesis_part)
           IN  IsNote(e[2]) =>
                  /\ e[2].id = <<"synthesis", i - 1>>
                  /\ e[2].ql = QL(1, 2)
                  /\ e[1] = (i - 1) * QL(1, 2)
                  /\ e[2].notes[1].pitch \in ScalePitches(yaman_pitches)

(***************************************************************************)
(* Properties of the assembly                                              *)
(***************************************************************************)
\* the entries of a stream that are notes or chords, as a set
NoteEntries(s) == {s.elems[k] : k \in {j \in DOMAIN s.elems : IsNote(s.elems[j][2])}}

\* the fragment a Sitar event came from, as far as it is still held
FragmentOf(el) == IF el.id[1] = "alaap" THEN alaap_stream ELSE synthesis_part

\* the local offsets at which the fragment holds the element of a Sitar entry
LocalOffsets(e) == {f[1] : f \in {g \in NoteEntries(FragmentOf(e[2])) : g[2].id = e[2].id}}

\* the offsets at which the two fragments of the Sitar timeline are placed:
\* O1 = 0 for the alaap (nominal length 32), O2 = 128 for the synthesis melody
Placement(fragment) == IF fragment = "alaap" THEN 0 ELSE QL(128, 1)

\* C4: with the two fragments of the Sitar timeline placed at O1 = 0 < O2 = 128
\* >= O1 + 32, every event lies in the timeline at its placement offset plus
\* its local offset, and two events of the same fragment stand in the
\* timeline in the order they have in the fragment.
C4_AssemblerOrder ==
    InBuild =>
        /\ Placement("alaap") < Placement("synthesis")
        /\ Placement("synthesis") >= Placement("alaap") + QL(32, 1)
        /\ \A e \in NoteEntries(master_sitar) :
              \A l \in LocalOffsets(e) : e[1] = Placement(e[2].id[1]) + l
        /\ \A a, b \in NoteEntries(master_sitar) :
              a[2].id[1] = b[2].id[1] =>
                  \A la \in LocalOffsets(a), lb \in LocalOffsets(b) :
                      (la < lb) <=> (a[1] < b[1])

\* C4 witness: the Sitar timeline holds two notes of the synthesis melody, the
\* 2nd and 3rd, at 128.5 and 129, both still held by the fragment
C4_Witness ==
    /\ InBuild
    /\ pc = "synthesis_loop"
    /\ Len(master_sitar.elems) = 2
    /\ master_sitar.elems[1][2].id = <<"synthesis", 1>>
    /\ master_sitar.elems[1][1] = QL(257, 2)
    /\ master_sitar.elems[2][2].id = <<"synthesis", 2>>
    /\ master_sitar.elems[2][1] = QL(129, 1)
    /\ LocalOffsets(master_sitar.elems[1]) = {QL(1, 2)}
    /\ LocalOffsets(master_sitar.elems[2]) = {QL(1, 1)}

\* the tempo marks of the score, in timeline order
TempoEntries(sc) == SelectSeq(sc.elems, LAMBDA e : e[2].kind = "tempo")

\* the parts of the score
PartEntries(sc) == SelectSeq(sc.elems, LAMBDA e : e[2].kind = "part")

\* C5: the score build_sahar_e_nau returns is non-empty and holds exactly two
\* tempo marks, 72 at offset 0 and 108 at offset 64, of different values, the
\* second exactly 1.5 times the first; at least one part holds an event.
C5_ScoreTempos ==
    Returned("build_sahar_e_nau") =>
        LET marks == TempoEntries(score)
            parts == PartEntries(score)
        IN  /\ score.elems # <<>>
            /\ Len(marks) = 2
            /\ marks[1][1] = 0 /\ marks[1][2].number = 72
            /\ marks[2][1] = QL(64, 1) /\ marks[2][2].number = 108
            /\ marks[1][2].number # marks[2][2].number
            /\ 2 * marks[2][2].number = 3 * marks[1][2].number
            /\ \E k \in DOMAIN parts : NoteEntries(parts[k][2].stream) # {}

\* C5 witness: a returned score of two tempo marks and four parts, the Cello
\* part holding its 16 chords
C5_Witness ==
    /\ Returned("build_sahar_e_nau")
    /\ Len(score.elems) = 6
    /\ Len(TempoEntries(score)) = 2
    /\ \E k \in 1..4 : /\ PartEntries(score)[k][2].id = "Cello"
                       /\ Cardinality(NoteEntries(PartEntries(score)[k][2].stream)) = 16

\* C10: the k-th keherwa measure (k = 0..15) lies in the Drums timeline at
\* offset 64 + 4*k, so the 16 measures occupy exactly [64, 128).
C10_DrumsEnterAt64 ==
    InBuild =>
        \A j \in DOMAIN master_drums.elems :
            LET e == master_drums.elems[j]
            IN  e[2].kind = "measure" =>
                    /\ e[1] = QL(64, 1) + e[2].id[2] * QL(4, 1)
                    /\ e[1] >= QL(64, 1)
                    /\ e[1] + e[2].ql <= QL(128, 1)

(***************************************************************************)
(* Properties of the alaap at the section boundary                         *)
(***************************************************************************)
\* have all runs of generate_alaap(32), the build's call, exited
AllRunsOf32Done == pc = "done" /\ cursors = {} /\ duration_quarters = QL(32, 1)

\* the ends of the last alaap note in the Sitar timeline, over all runs
LastAlaapEnds == {AlaapStart + e : e \in ends}

\* C11 as stated: among the runs of the alaap of nominal duration 32 there are
\* runs whose last event ends after offset 32 and runs whose last event ends
\* before offset 32.
C11_OverAndUnder ==
    AllRunsOf32Done =>
        /\ \E e \in LastAlaapEnds : e > QL(32, 1)
        /\ \E e \in LastAlaapEnds : e < QL(32, 1)

\* C11 amended: the alaap of nominal duration 32 can run over its nominal
\* duration but never under it: there are runs whose last event ends after 32
\* (at 32.5, 33 or 33.5) and runs whose last event ends exactly at 32, and in
\* no run does it end before 32; for every target the last event ends at or
\* after the target and less than 2.0 after it.
C11_OverNeverUnder ==
    /\ (pc = "done" /\ cursors = {}) =>
          \A e \in ends : duration_quarters <= e /\ e < duration_quarters + QL(2, 1)
    /\ AllRunsOf32Done =>
          /\ LastAlaapEnds = {QL(32, 1), QL(65, 2), QL(33, 1), QL(67, 2)}
          /\ \E e \in LastAlaapEnds : e > QL(32, 1)
          /\ ~(\E e \in LastAlaapEnds : e < QL(32, 1))

\* C11 witness: all runs of generate_alaap(32) have exited, one of them with its
\* last event ending at 33.5
C11_Witness == AllRunsOf32Done /\ QL(67, 2) \in LastAlaapEnds

\* the offsets of the note and chord events of a timeline
EventOffsets(s) == {e[1] : e \in NoteEntries(s)}

\* the events of the Sitar timeline that came from a fragment
SitarEntries(fragment) == {e \in NoteEntries(master_sitar) : e[2].id[1] = fragment}

\* C12: the placement offsets are constants independent of the generated
\* content: whatever the alaap's draws and its actual end, the first cello
\* event is at 32, the first guitar event at 64, and the first synthesis event
\* at 128 = 32 + 32 + 64 (the k-th at 128 + k/2); the alaap's end moves none.
C12_PlacementConstants ==
    InBuild =>
        /\ synthesis_start_offset = QL(128, 1)
        /\ EventOffsets(master_cello) # {} =>
              /\ QL(32, 1) \in EventOffsets(master_cello)
              /\ \A o \in EventOffsets(master_cello) : o >= QL(32, 1)
        /\ EventOffsets(master_guitar) # {} =>
              /\ QL(64, 1) \in EventOffsets(master_guitar)
              /\ \A o \in EventOffsets(master_guitar) : o >= QL(64, 1)
        /\ \A e \in SitarEntries("synthesis") :
              e[1] = QL(128, 1) + e[2].id[2] * QL(1, 2)

\* C12 witness: the alaap has run over, its last note ending at 33.5, and the
\* first synthesis note has just been placed, at 128
C12_Witness ==
    /\ InBuild
    /\ Len(master_sitar.elems) = 2
    /\ IsNote(master_sitar.elems[1][2])
    /\ master_sitar.elems[1][2].id[1] = "alaap"
    /\ master_sitar.elems[1][1] + master_sitar.elems[1][2].ql = QL(67, 2)
    /\ master_sitar.elems[2][2].id = <<"synthesis", 0>>
    /\ master_sitar.elems[2][1] = QL(128, 1)

(***************************************************************************)
(* Termination of generate_alaap                                           *)
(***************************************************************************)
\* the least integer not below a / b, for b > 0
CeilDiv(a, b) == (a + b - 1) \div b

\* the events made so far are counted and placed as the loop's arithmetic says
AlaapEventsInStep ==
    caller = "generate_alaap" =>
        LET evs == Notes(alaap_stream)
            D   == duration_quarters
        IN  /\ \A k \in DOMAIN evs :
                  /\ evs[k][1] = SumQL(SubSeq(evs, 1, k - 1))
                  /\ evs[k][2].ql >= QL(1, 2)
            /\ pc = "alaap_loop" => current_offset = SumQL(evs)
            /\ D <= 0 => Len(evs) = 0
            /\ D > 0 => Len(evs) <= CeilDiv(D, QL(1, 2))
            /\ (pc = "done" /\ D > 0) => Len(evs) >= CeilDiv(D, QL(2, 1))

LastTwoDisjoint(s) ==
    Len(s.elems) = 2 =>
        s.elems[1][1] + ElQL(s.elems[1][2]) <= s.elems[2][1]

\* C14: the two fragments of the Sitar timeline occupy disjoint offset ranges
\* for every outcome of the draws: every alaap event ends before 34 (hence
\* before 128), every synthesis event lies in [128, 160), and no two events
\* overlap: each event starts at or after the end of the one placed before it,
\* and no event ends after the newest one.
C14_SitarDisjoint ==
    InBuild =>
        /\ \A e \in SitarEntries("alaap") :
              /\ e[1] >= 0
              /\ e[1] + e[2].ql < QL(34, 1)
              /\ e[1] + e[2].ql < QL(128, 1)
        /\ \A e \in SitarEntries("synthesis") :
              /\ e[1] >= QL(128, 1)
              /\ e[1] < QL(160, 1)
              /\ e[1] + e[2].ql <= QL(160, 1)
        /\ LastTwoDisjoint(master_sitar)
        /\ master_sitar.elems # <<>> =>
              master_sitar.hi = LastEntry(master_sitar)[1] + ElQL(LastEntry(master_sitar)[2])

\* C14 witness: the Sitar timeline at the change of fragment: the last alaap
\* note, of 2.0 and ending at 33, and after it the first synthesis note
C14_Witness ==
    /\ InBuild
    /\ Len(master_sitar.elems) = 2
    /\ IsNote(master_sitar.elems[1][2])
    /\ master_sitar.elems[1][2].id = <<"alaap", QL(31, 1)>>
    /\ master_sitar.elems[1][2].ql = QL(2, 1)
    /\ master_sitar.elems[2][2].id[1] = "synthesis"
    /\ master_sitar.elems[2][1] >= master_sitar.elems[1][1] + QL(2, 1)

(***************************************************************************)
(* Properties of the fixed-length fragments                                *)
(***************************************************************************)
\* do the events of a timeline stand back to back from one offset to another
BackToBack(evs, from, to) ==
    /\ evs # <<>>
    /\ evs[1][1] = from
    /\ \A k \in 1..(Len(evs) - 1) : evs[k + 1][1] = evs[k][1] + ElQL(evs[k][2])
    /\ evs[Len(evs)][1] + ElQL(evs[Len(evs)][2]) = to

\* C15: each fragment of fixed length lasts exactly the nominal length of its
\* section and fills its window with no gap or overlap: the 16 fracture chords
\* stand back to back from 32 and end at 64, the 16 riff chords from 64 end at
\* 128, and the 64 synthesis notes, the k-th at 128 + k/2 and of 0.5, end at
\* 160.
C15_WindowsFilled ==
    /\ InBuild =>
          \A e \in SitarEntries("synthesis") :
              /\ e[2].id[2] \in 0..(SynthesisCount - 1)
              /\ e[1] = QL(128, 1) + e[2].id[2] * QL(1, 2)
              /\ e[2].ql = QL(1, 2)
    /\ Returned("build_sahar_e_nau") =>
          /\ fracture_stream.hi = QL(32, 1)
          /\ Len(Notes(master_cello)) = 16
          /\ BackToBack(Notes(master_cello), QL(32, 1), QL(64, 1))
          /\ master_cello.hi = QL(64, 1)
          /\ riff_stream.hi = QL(64, 1)
          /\ Len(Notes(master_guitar)) = 16
          /\ BackToBack(Notes(master_guitar), QL(64, 1), QL(128, 1))
          /\ master_guitar.hi = QL(128, 1)
          /\ synthesis_part.hi = QL(32, 1)
          /\ LastEntry(master_sitar)[2].id = <<"synthesis", 63>>
          /\ LastEntry(master_sitar)[1] + QL(1, 2) = QL(160, 1)
          /\ master_sitar.hi = QL(160, 1)

\* C15 witness: the build has returned with the last fracture chord in the
\* Cello timeline at 62, the last riff chord in the Guitar timeline at 124 and
\* the last synthesis note in the Sitar timeline at 159.5
C15_Witness ==
    /\ Returned("build_sahar_e_nau")
    /\ LastEntry(master_cello) = <<QL(62, 1), ClashChord(15)>>
    /\ LastEntry(master_guitar)[1] = QL(124, 1)
    /\ LastEntry(master_sitar)[1] = QL(319, 2)

(***************************************************************************)
(* Properties of the detuning                                              *)
(***************************************************************************)
\* the pitches of the scale in hand that carry a detuning
DetunedPitches == {p \in ScalePitches(yaman_pitches) : p.microtone # 0}

\* is the Sitar fragment's loop running in the build, the scale in hand
SitarLoopInBuild == InBuild /\ pc \in {"alaap_loop", "synthesis_loop"}

\* C16: the +10 cents of the scale's augmented 4th do not reach the generated
\* events: the scale the two Sitar generators draw from holds the augmented
\* 4th with its 10 cents, but each note is rebuilt from the drawn pitch's
\* name-with-octave alone, so every event of the Sitar timeline, those on the
\* augmented 4th included, has a detuning of zero.
C16_DetuningDropped ==
    /\ InBuild =>
          \A e \in NoteEntries(master_sitar) :
              \A k \in DOMAIN e[2].notes : e[2].notes[k].pitch.microtone = 0
    /\ SitarLoopInBuild =>
          /\ \E p \in DetunedPitches : Ps(p) - Ps(yaman_pitches[1]) = 6
          /\ \A p \in DetunedPitches : p.microtone = TivraMaCents
          /\ \A p \in DetunedPitches : p \notin ScalePitches(ScaleNames(yaman_pitches))
                                       /\ PitchFromName(NameWithOctave(p)) # p

\* C16 witness: the note placed last in the Sitar timeline is on the scale's
\* augmented 4th, the degree the scale holds detuned, and has no detuning
C16_Witness ==
    /\ SitarLoopInBuild
    /\ master_sitar.elems # <<>>
    /\ IsNote(LastEntry(master_sitar)[2])
    /\ \E p \in DetunedPitches :
          /\ NameWithOctave(LastEntry(master_sitar)[2].notes[1].pitch) = NameWithOctave(p)
          /\ LastEntry(master_sitar)[2].notes[1].pitch.microtone = 0
          /\ p.microtone = TivraMaCents

====
